---- MODULE Spec2Model ----
(***************************************************************************)
(* Model of the You.com n8n node (nodes/YouDotCom/YouDotCom.node.ts and    *)
(* YouDotCom.schemas.ts): the Zod option/response schemas, the two request *)
(* builders (#executeSearch, #executeContents) and the per-item loop of    *)
(* execute() with its catch block.                                         *)
(*                                                                         *)
(* Representation of JavaScript values.  A value is a record               *)
(* [t |-> typeof-tag, v |-> payload]:                                      *)
(*   "string"    v is a TLA+ string                                        *)
(*   "number"    v is the number counted in halves (v = 2 * n for the      *)
(*               integer n, v odd for n + 1/2), so that non-integers exist *)
(*   "array"     v is a sequence of values                                 *)
(*   "object"    v is a function from keys to values; an absent key is     *)
(*               outside its DOMAIN                                        *)
(*   "undefined" the value read for an absent key                          *)
(*   "text"      a string given as the sequence of the fragments whose     *)
(*               concatenation it is (v = << >> is the empty string); used *)
(*               where the code builds or takes apart a string             *)
(* The text of the URL parameter is a sequence of one-character strings,   *)
(* because split(',') and trim() work on characters.                       *)
(***************************************************************************)
EXTENDS Integers, Sequences, FiniteSets, TLC

VARIABLES items, continueOnFail, i, pc, returnData, requests, paramReads, thrown

vars == <<items, continueOnFail, i, pc, returnData, requests, paramReads, thrown>>

(***************************************************************************)
(* JavaScript values                                                       *)
(***************************************************************************)
Str(s) == [t |-> "string", v |-> s]

Num(n) == [t |-> "number", v |-> 2 * n]

NumAndHalf(n) == [t |-> "number", v |-> 2 * n + 1]

Text(frags) == [t |-> "text", v |-> frags]

Arr(s) == [t |-> "array", v |-> s]

Obj(f) == [t |-> "object", v |-> f]

Undefined == [t |-> "undefined", v |-> "undefined"]

EmptyObj == Obj(<<>>)

\* o.k for an object o: the value under k, undefined when k is absent
Get(o, k) == IF k \in DOMAIN o.v THEN o.v[k] ELSE Undefined

\* the condition of `if (x)`: "" , 0 and undefined are falsy
Truthy(x) ==
  CASE x.t = "string" -> x.v # ""
    [] x.t = "text" -> x.v # << >>
    [] x.t = "number" -> x.v # 0
    [] x.t = "undefined" -> FALSE
    [] OTHER -> TRUE

\* obj[k] = x on a plain object
Put(f, k, x) == [kk \in (DOMAIN f) \cup {k} |-> IF kk = k THEN x ELSE f[kk]]

(***************************************************************************)
(* Zod schemas (YouDotCom.schemas.ts)                                      *)
(***************************************************************************)
ZNumberInt(lo, hi) == [type |-> "number", int |-> TRUE, hasRange |-> TRUE, min |-> lo, max |-> hi]

ZNumber == [type |-> "number", int |-> FALSE, hasRange |-> FALSE, min |-> 0, max |-> 0]

ZString == [type |-> "string", url |-> FALSE]

ZUrl == [type |-> "string", url |-> TRUE]

ZEnum(vals) == [type |-> "enum", values |-> vals]

ZArray(elem) == [type |-> "array", element |-> elem]

ZRecordUnknown == [type |-> "record"]

\* z.object(shape): unknown keys are stripped; .passthrough() keeps them
ZObject(shp) == [type |-> "object", shape |-> shp, unknownKeys |-> "strip"]

\* a passthrough that strips like a plain z.object
ZPassthroughStrips(shp) == [type |-> "object", shape |-> shp, unknownKeys |-> "strip"]

ZPassthrough(shp) == [type |-> "object", shape |-> shp, unknownKeys |-> "passthrough"]

Opt(k, s) == [key |-> k, schema |-> s, optional |-> TRUE]

Req(k, s) == [key |-> k, schema |-> s, optional |-> FALSE]

\* SearchOptionsSchema with count declared .min(0) instead of .min(1)
SearchOptionsSchemaCountFromZero ==
  ZObject(<< Opt("count", ZNumberInt(0, 100)),
             Opt("country", ZString),
             Opt("freshness", ZEnum({"day", "week", "month", "year"})),
             Opt("language", ZString),
             Opt("livecrawl", ZEnum({"web", "news", "all"})),
             Opt("livecrawl_formats", ZEnum({"html", "markdown"})),
             Opt("offset", ZNumberInt(0, 9)),
             Opt("safesearch", ZEnum({"off", "moderate", "strict"})) >>)

SearchOptionsSchema ==
  ZObject(<< Opt("count", ZNumberInt(1, 100)),
             Opt("country", ZString),
             Opt("freshness", ZEnum({"day", "week", "month", "year"})),
             Opt("language", ZString),
             Opt("livecrawl", ZEnum({"web", "news", "all"})),
             Opt("livecrawl_formats", ZEnum({"html", "markdown"})),
             Opt("offset", ZNumberInt(0, 9)),
             Opt("safesearch", ZEnum({"off", "moderate", "strict"})) >>)

WebResultSchema ==
  ZPassthrough(<< Req("url", ZString),
                  Req("title", ZString),
                  Req("description", ZString),
                  Opt("snippets", ZArray(ZString)),
                  Opt("page_age", ZString) >>)

NewsResultSchema ==
  ZPassthrough(<< Req("url", ZString),
                  Req("title", ZString),
                  Req("description", ZString),
                  Opt("page_age", ZString) >>)

MetadataSchema ==
  ZPassthrough(<< Opt("search_uuid", ZString),
                  Opt("query", ZString),
                  Opt("latency", ZNumber) >>)

SearchResponseSchema ==
  ZPassthrough(<< Req("results", ZPassthrough(<< Opt("web", ZArray(WebResultSchema)),
                                                 Opt("news", ZArray(NewsResultSchema)) >>)),
                  Opt("metadata", MetadataSchema) >>)

ContentsOptionsSchema ==
  ZObject(<< Opt("formats", ZArray(ZEnum({"markdown", "html", "metadata"}))),
             Opt("crawl_timeout", ZNumberInt(1, 60)) >>)

ContentsResponseSchema ==
  ZArray(ZPassthrough(<< Req("url", ZUrl),
                         Opt("markdown", ZString),
                         Opt("html", ZString),
                         Opt("metadata", ZRecordUnknown) >>))

\* the values the options lists of description.properties let a user select
CatalogueOptions ==
  [k \in {"country", "freshness", "language", "livecrawl", "livecrawl_formats", "safesearch", "formats"} |->
     CASE k = "country" ->
            {"", "AR", "AU", "AT", "BE", "BR", "CA", "CL", "CN", "DK", "FI", "FR", "DE", "HK", "IN",
             "ID", "IT", "JP", "MY", "MX", "NL", "NZ", "NO", "PH", "PL", "PT", "RU", "SA", "ZA",
             "KR", "ES", "SE", "CH", "TW", "TR", "GB", "US"}
       [] k = "freshness" -> {"", "day", "month", "week", "year"}
       [] k = "language" ->
            {"AR", "BN", "BG", "CA", "ZH-HANS", "ZH-HANT", "HR", "CS", "DA", "NL", "EN", "EN-GB",
             "ET", "FI", "FR", "GL", "DE", "EL", "GU", "HE", "HI", "HU", "IS", "IT", "JP", "KN",
             "KO", "LV", "LT", "MS", "ML", "MR", "NB", "PL", "PT-BR", "PT-PT", "PA", "RO", "RU",
             "SR", "SK", "SL", "ES", "SV", "TA", "TE", "TH", "TR", "UK", "VI"}
       [] k = "livecrawl" -> {"", "web", "news", "all"}
       [] k = "livecrawl_formats" -> {"html", "markdown"}
       [] k = "safesearch" -> {"off", "moderate", "strict"}
       [] k = "formats" -> {"markdown", "html", "metadata"}]

\* typeOptions of the number fields in description.properties
TypeOptions ==
  [k \in {"count", "offset", "crawl_timeout"} |->
     CASE k = "count" -> [minValue |-> 1, maxValue |-> 100]
       [] k = "offset" -> [minValue |-> 0, maxValue |-> 9]
       [] k = "crawl_timeout" -> [minValue |-> 1, maxValue |-> 60]]

(***************************************************************************)
(* Zod parsing.  An issue is [path, message, code]; the path is the        *)
(* sequence of keys (array positions as decimal strings) from the parsed   *)
(* value down to the offending one.  All checks of a number and all fields *)
(* of an object are visited, so one parse reports every violation.         *)
(***************************************************************************)
ZodIssue(p, c, m) == [path |-> p, message |-> m, code |-> c]

\* strings that z.string().url() accepts among the strings upstream may send
WellFormedUrls == {"https://a.com", "https://b.com"}

ShapeKeys(shp) == {shp[j].key : j \in DOMAIN shp}

ShapeSchema(shp, k) == shp[CHOOSE j \in DOMAIN shp : shp[j].key = k].schema

CheckNumber(schema, x, path) ==
  IF x.t # "number"
  THEN << ZodIssue(path, "invalid_type", "Expected number") >>
  ELSE (IF schema.int /\ x.v % 2 # 0
        THEN << ZodIssue(path, "invalid_type", "Expected integer, received float") >>
        ELSE << >>)
       \o (IF schema.hasRange /\ x.v < 2 * schema.min
           THEN << ZodIssue(path, "too_small", "Number must be greater than or equal to min") >>
           ELSE << >>)
       \o (IF schema.hasRange /\ x.v > 2 * schema.max
           THEN << ZodIssue(path, "too_big", "Number must be less than or equal to max") >>
           ELSE << >>)

CheckString(schema, x, path) ==
  IF x.t # "string"
  THEN << ZodIssue(path, "invalid_type", "Expected string") >>
  ELSE IF schema.url /\ x.v \notin WellFormedUrls
       THEN << ZodIssue(path, "invalid_string", "Invalid url") >>
       ELSE << >>

CheckEnum(schema, x, path) ==
  IF x.t # "string"
  THEN << ZodIssue(path, "invalid_type", "Expected enum value") >>
  ELSE IF x.v \notin schema.values
       THEN << ZodIssue(path, "invalid_enum_value", "Invalid enum value") >>
       ELSE << >>

RECURSIVE ZodIssues(_, _, _)
RECURSIVE ArrayIssues(_, _, _, _)
RECURSIVE ObjectIssues(_, _, _, _)
RECURSIVE ObjectIssuesFailFast(_, _, _, _)

\* the issues of elements n.. of the array x, in element order
ArrayIssues(schema, x, path, n) ==
  IF n > Len(x.v)
  THEN << >>
  ELSE ZodIssues(schema.element, x.v[n], Append(path, ToString(n - 1)))
       \o ArrayIssues(schema, x, path, n + 1)

\* ObjectIssues that stops at the first field with a violation
ObjectIssuesFailFast(schema, x, path, n) ==
  IF n > Len(schema.shape)
  THEN << >>
  ELSE LET e == schema.shape[n]
           field == Get(x, e.key)
           found == IF field.t = "undefined" /\ e.optional
                    THEN << >>
                    ELSE ZodIssues(e.schema, field, Append(path, e.key))
       IN IF found # << >> THEN found ELSE ObjectIssuesFailFast(schema, x, path, n + 1)

\* the issues of shape entries n.. of the object x, in shape order
ObjectIssues(schema, x, path, n) ==
  IF n > Len(schema.shape)
  THEN << >>
  ELSE LET e == schema.shape[n]
           field == Get(x, e.key)
       IN (IF field.t = "undefined" /\ e.optional
           THEN << >>
           ELSE ZodIssues(e.schema, field, Append(path, e.key)))
          \o ObjectIssues(schema, x, path, n + 1)

ZodIssues(schema, x, path) ==
  CASE schema.type = "number" -> CheckNumber(schema, x, path)
    [] schema.type = "string" -> CheckString(schema, x, path)
    [] schema.type = "enum" -> CheckEnum(schema, x, path)
    [] schema.type = "record" ->
         IF x.t # "object"
         THEN << ZodIssue(path, "invalid_type", "Expected object") >>
         ELSE << >>
    [] schema.type = "array" ->
         IF x.t # "array"
         THEN << ZodIssue(path, "invalid_type", "Expected array") >>
         ELSE ArrayIssues(schema, x, path, 1)
    [] schema.type = "object" ->
         IF x.t # "object"
         THEN << ZodIssue(path, "invalid_type", "Expected object") >>
         ELSE ObjectIssues(schema, x, path, 1)

\* the value a successful parse returns: declared keys parsed by their own
\* schema, undeclared keys dropped (strip) or kept as they are (passthrough)
RECURSIVE ZodData(_, _)
ZodData(schema, x) ==
  CASE schema.type = "array" -> Arr([n \in DOMAIN x.v |-> ZodData(schema.element, x.v[n])])
    [] schema.type = "object" ->
         LET known == ShapeKeys(schema.shape)
             kept == IF schema.unknownKeys = "passthrough"
                     THEN DOMAIN x.v
                     ELSE (DOMAIN x.v) \cap known
         IN Obj([k \in kept |-> IF k \in known
                                THEN ZodData(ShapeSchema(schema.shape, k), x.v[k])
                                ELSE x.v[k]])
    [] OTHER -> x

\* schema.safeParse(x); schema.parse(x) throws ZodError(issues) when not success
SafeParse(schema, x) ==
  LET issues == ZodIssues(schema, x, << >>)
  IN IF issues = << >>
     THEN [success |-> TRUE, data |-> ZodData(schema, x), issues |-> << >>]
     ELSE [success |-> FALSE, data |-> Undefined, issues |-> issues]

(***************************************************************************)
(* String helpers used by #executeContents and by the catch block          *)
(***************************************************************************)
\* characters String.prototype.trim() removes
WhiteSpace == {" ", "\t", "\n"}

RECURSIVE Split(_, _)
\* s.split(sep) for a one-character separator
Split(s, sep) ==
  IF \A n \in DOMAIN s : s[n] # sep
  THEN << s >>
  ELSE LET p == CHOOSE n \in DOMAIN s : s[n] = sep /\ \A m \in 1..(n - 1) : s[m] # sep
       IN << SubSeq(s, 1, p - 1) >> \o Split(SubSeq(s, p + 1, Len(s)), sep)

RECURSIVE TrimStart(_)
TrimStart(s) == IF s # << >> /\ Head(s) \in WhiteSpace THEN TrimStart(Tail(s)) ELSE s

RECURSIVE TrimEnd(_)
TrimEnd(s) ==
  IF s # << >> /\ s[Len(s)] \in WhiteSpace THEN TrimEnd(SubSeq(s, 1, Len(s) - 1)) ELSE s

\* trim() that leaves trailing white space in place
TrimLeftOnly(s) == TrimStart(s)

\* url.trim()
Trim(s) == TrimEnd(TrimStart(s))

RECURSIVE Join(_, _)
\* path.join(sep): the fragments of the joined string
Join(path, sep) ==
  IF path = << >> THEN << >>
  ELSE IF Len(path) = 1 THEN << path[1] >>
  ELSE << path[1], sep >> \o Join(Tail(path), sep)

RECURSIVE Flatten(_)
\* the fragments of the concatenation of a sequence of strings
Flatten(ss) == IF ss = << >> THEN << >> ELSE Head(ss) \o Flatten(Tail(ss))

(***************************************************************************)
(* Request builders: the synchronous part of #executeSearch and            *)
(* #executeContents between the options parse and the HTTP call            *)
(***************************************************************************)
\* SearchQs with `if (options.offset)` in place of `!== undefined`
SearchQsTruthyOffset(query, options) ==
  LET copyIf(qs, k) == IF Truthy(Get(options, k)) THEN Put(qs, k, Get(options, k)) ELSE qs
      q0 == [k \in {"query"} |-> query]
      q1 == copyIf(q0, "count")
      q2 == copyIf(q1, "country")
      q3 == copyIf(q2, "freshness")
      q4 == copyIf(q3, "language")
      q5 == copyIf(q4, "livecrawl")
      q6 == copyIf(q5, "livecrawl_formats")
      q7 == copyIf(q6, "offset")
  IN copyIf(q7, "safesearch")

\* SearchQs with `qs.offset = options.offset ?? 0`: an absent offset is sent as 0
SearchQsDefaultOffset(query, options) ==
  LET copyIf(qs, k) == IF Truthy(Get(options, k)) THEN Put(qs, k, Get(options, k)) ELSE qs
      q0 == [k \in {"query"} |-> query]
      q1 == copyIf(q0, "count")
      q2 == copyIf(q1, "country")
      q3 == copyIf(q2, "freshness")
      q4 == copyIf(q3, "language")
      q5 == copyIf(q4, "livecrawl")
      q6 == copyIf(q5, "livecrawl_formats")
      q7 == IF Get(options, "offset").t # "undefined"
            THEN Put(q6, "offset", Get(options, "offset"))
            ELSE Put(q6, "offset", Num(0))
  IN copyIf(q7, "safesearch")

\* qs of the search request for the query and the parsed options
SearchQs(query, options) ==
  LET copyIf(qs, k) == IF Truthy(Get(options, k)) THEN Put(qs, k, Get(options, k)) ELSE qs
      q0 == [k \in {"query"} |-> query]
      q1 == copyIf(q0, "count")
      q2 == copyIf(q1, "country")
      q3 == copyIf(q2, "freshness")
      q4 == copyIf(q3, "language")
      q5 == copyIf(q4, "livecrawl")
      q6 == copyIf(q5, "livecrawl_formats")
      q7 == IF Get(options, "offset").t # "undefined"
            THEN Put(q6, "offset", Get(options, "offset"))
            ELSE q6
  IN copyIf(q7, "safesearch")

\* ContentsUrls without the filter of empty pieces
ContentsUrlsUnfiltered(urlsString) ==
  LET pieces == Split(urlsString.v, ",")
  IN [n \in DOMAIN pieces |-> Trim(pieces[n])]

\* urlsString.split(',').map(trim).filter(length > 0)
ContentsUrls(urlsString) ==
  LET pieces == Split(urlsString.v, ",")
      trimmed == [n \in DOMAIN pieces |-> Trim(pieces[n])]
      nonEmpty(url) == Len(url) > 0
  IN SelectSeq(trimmed, nonEmpty)

\* ContentsBody with `if (options.formats)`: an empty formats list is sent
ContentsBodyAnyFormats(urls, options) ==
  LET b0 == [k \in {"urls"} |-> Arr([n \in DOMAIN urls |-> Text(urls[n])])]
      formats == Get(options, "formats")
      b1 == IF Truthy(formats) THEN Put(b0, "formats", formats) ELSE b0
  IN IF Truthy(Get(options, "crawl_timeout"))
     THEN Put(b1, "crawl_timeout", Get(options, "crawl_timeout"))
     ELSE b1

\* body of the contents request for the cleaned URL list and the parsed options
ContentsBody(urls, options) ==
  LET b0 == [k \in {"urls"} |-> Arr([n \in DOMAIN urls |-> Text(urls[n])])]
      formats == Get(options, "formats")
      b1 == IF Truthy(formats) /\ Len(formats.v) > 0 THEN Put(b0, "formats", formats) ELSE b0
  IN IF Truthy(Get(options, "crawl_timeout"))
     THEN Put(b1, "crawl_timeout", Get(options, "crawl_timeout"))
     ELSE b1

(***************************************************************************)
(* Host helpers and exceptions                                             *)
(***************************************************************************)
\* getNodeParameter that ignores the item index and reads the first item
GetNodeParameterOfFirstItem(name, index) == items[1][name]

\* this.getNodeParameter(name, index); indices are 0-based as in the code
GetNodeParameter(name, index) == items[index + 1][name]

\* helpers.returnJsonArray(response): one {json} entry per element of an
\* array response, one entry for an object response
ReturnJsonArray(response) ==
  LET list == IF response.t = "array" THEN response.v ELSE << response >>
  IN [n \in DOMAIN list |-> [json |-> list[n]]]

\* constructExecutionMetaData that hands the entries back last first
ConstructExecutionMetaDataReversed(entries, index) ==
  [n \in DOMAIN entries |-> [json |-> entries[Len(entries) + 1 - n].json, pairedItem |-> [item |-> index]]]

\* helpers.constructExecutionMetaData(entries, {itemData: {item: index}})
ConstructExecutionMetaData(entries, index) ==
  [n \in DOMAIN entries |-> [json |-> entries[n].json, pairedItem |-> [item |-> index]]]

ZodError(issues) == [name |-> "ZodError", message |-> Text(<< "ZodError" >>), issues |-> issues]

NodeOperationError(message) == [name |-> "NodeOperationError", message |-> Text(<< message >>), issues |-> << >>]

\* what httpRequestWithAuthentication rejects with
TransportError == [name |-> "Error", message |-> Text(<< "Request failed" >>), issues |-> << >>]

\* ErrorMessage with the lines numbered by the array index, from 0
ErrorMessageFromZero(issues) ==
  LET line(k) == << "  ", ToString(k - 1), ". " >>
                 \o (IF Truthy(Text(Join(issues[k].path, ".")))
                     THEN Join(issues[k].path, ".")
                     ELSE << "root" >>)
                 \o << ": ", issues[k].message >>
  IN Text(<< "Validation error:", "\n" >> \o Flatten(Join([k \in DOMAIN issues |-> line(k)], << "\n" >>)))

\* `Validation error:\n${issues.map((e, k) => `  ${k + 1}. ${path || 'root'}: ${message}`).join('\n')}`
ErrorMessage(issues) ==
  LET line(k) == << "  ", ToString(k), ". " >>
                 \o (IF Truthy(Text(Join(issues[k].path, ".")))
                     THEN Join(issues[k].path, ".")
                     ELSE << "root" >>)
                 \o << ": ", issues[k].message >>
  IN Text(<< "Validation error:", "\n" >> \o Flatten(Join([k \in DOMAIN issues |-> line(k)], << "\n" >>)))

\* error.issues.map(issue => ({path: issue.path.join('.'), message, code}))
SerializedIssues(issues) ==
  Arr([k \in DOMAIN issues |->
         Obj([f \in {"path", "message", "code"} |->
                CASE f = "path" -> Text(Join(issues[k].path, "."))
                  [] f = "message" -> Str(issues[k].message)
                  [] f = "code" -> Str(issues[k].code)])])

(***************************************************************************)
(* execute(): state                                                        *)
(*   items          the input items, each with its node parameters         *)
(*   continueOnFail the host's continuation flag                           *)
(*   i              the loop variable                                      *)
(*   pc             "loop" at the loop head, "http" while the HTTP call of *)
(*                  item i is awaited, "returned", "thrown"                *)
(*   returnData     the output list                                        *)
(*   requests       the HTTP requests issued, with what came back          *)
(*   paramReads     the getNodeParameter calls made, in order              *)
(*   thrown         << >> or << the NodeApiError execute() raised >>       *)
(***************************************************************************)

\* the validation error record without the violation list
ValidationErrorRecordMessageOnly(error, index) ==
  [json |-> Obj([k \in {"error"} |-> ErrorMessage(error.issues)]),
   pairedItem |-> [item |-> index]]

\* the error record of the catch block for a ZodError
ValidationErrorRecord(error, index) ==
  [json |-> Obj([k \in {"error", "validationErrors"} |->
                   IF k = "error" THEN ErrorMessage(error.issues)
                                  ELSE SerializedIssues(error.issues)]),
   pairedItem |-> [item |-> index]]

\* the plain error record paired to the first item instead of the current one
PlainErrorRecordUnpaired(error, index) ==
  [json |-> Obj([k \in {"error"} |-> error.message]),
   pairedItem |-> [item |-> 0]]

\* the error record of the catch block for any other error
PlainErrorRecord(error, index) ==
  [json |-> Obj([k \in {"error"} |-> error.message]),
   pairedItem |-> [item |-> index]]

\* NodeApiError built without the {itemIndex} option
NodeApiErrorWithoutIndex(errorResponse, index) == [errorResponse |-> errorResponse, itemIndex |-> -1]

\* new NodeApiError(node, errorResponse, {itemIndex})
NodeApiError(errorResponse, index) == [errorResponse |-> errorResponse, itemIndex |-> index]

\* the catch block of the loop body, entered with the error thrown for item i
Catch(error) ==
  \E caught \in {error} :
    IF caught.name = "ZodError"
    THEN IF continueOnFail
         THEN /\ returnData' = Append(returnData, ValidationErrorRecord(caught, i))
              /\ i' = i + 1
              /\ pc' = "loop"
              /\ UNCHANGED thrown
         ELSE /\ thrown' = << NodeApiError(Obj([k \in {"message", "issues"} |->
                                                 IF k = "message" THEN ErrorMessage(caught.issues)
                                                                  ELSE SerializedIssues(caught.issues)]),
                                           i) >>
              /\ pc' = "thrown"
              /\ UNCHANGED <<returnData, i>>
    ELSE IF continueOnFail
         THEN /\ returnData' = Append(returnData, PlainErrorRecord(caught, i))
              /\ i' = i + 1
              /\ pc' = "loop"
              /\ UNCHANGED thrown
         ELSE /\ thrown' = << NodeApiError(Obj([k \in {"message"} |-> caught.message]), i) >>
              /\ pc' = "thrown"
              /\ UNCHANGED <<returnData, i>>

HttpRequest(index, method, url, qs, body) ==
  [item |-> index, method |-> method, url |-> url, qs |-> qs, body |-> body,
   status |-> "pending", response |-> Undefined]

\* loop body for operation === 'search', up to the awaited HTTP call
ExecuteSearch ==
  /\ pc = "loop"
  /\ i < Len(items)
  /\ GetNodeParameter("operation", i) = "search"
  /\ LET query == GetNodeParameter("query", i)
         rawOptions == GetNodeParameter("searchOptions", i)
     IN \E parsed \in {SafeParse(SearchOptionsSchema, rawOptions)} :
        /\ paramReads' = paramReads \o << <<"operation", i>>, <<"query", i>>, <<"searchOptions", i>> >>
        /\ IF ~parsed.success
           THEN /\ Catch(ZodError(parsed.issues))
                /\ UNCHANGED requests
           ELSE /\ requests' = Append(requests,
                                      HttpRequest(i, "GET", "https://ydc-index.io/v1/search",
                                                  SearchQs(query, parsed.data), << >>))
                /\ pc' = "http"
                /\ UNCHANGED <<returnData, i, thrown>>
  /\ UNCHANGED <<items, continueOnFail>>

\* ExecuteContents with the empty-list check ahead of the options parse
ExecuteContentsUrlsFirst ==
  /\ pc = "loop"
  /\ i < Len(items)
  /\ GetNodeParameter("operation", i) = "contents"
  /\ LET urlsString == GetNodeParameter("urls", i)
         rawOptions == GetNodeParameter("contentsOptions", i)
     IN \E parsed \in {SafeParse(ContentsOptionsSchema, rawOptions)}, urls \in {ContentsUrls(urlsString)} :
        /\ paramReads' = paramReads \o << <<"operation", i>>, <<"urls", i>>, <<"contentsOptions", i>> >>
        /\ IF Len(urls) = 0
           THEN /\ Catch(NodeOperationError("At least one URL is required"))
                /\ UNCHANGED requests
           ELSE IF ~parsed.success
           THEN /\ Catch(ZodError(parsed.issues))
                /\ UNCHANGED requests
           ELSE /\ requests' = Append(requests,
                                      HttpRequest(i, "POST", "https://ydc-index.io/v1/contents",
                                                  << >>, ContentsBody(urls, parsed.data)))
                /\ pc' = "http"
                /\ UNCHANGED <<returnData, i, thrown>>
  /\ UNCHANGED <<items, continueOnFail>>

\* loop body for operation === 'contents', up to the awaited HTTP call
ExecuteContents ==
  /\ pc = "loop"
  /\ i < Len(items)
  /\ GetNodeParameter("operation", i) = "contents"
  /\ LET urlsString == GetNodeParameter("urls", i)
         rawOptions == GetNodeParameter("contentsOptions", i)
     IN \E parsed \in {SafeParse(ContentsOptionsSchema, rawOptions)}, urls \in {ContentsUrls(urlsString)} :
        /\ paramReads' = paramReads \o << <<"operation", i>>, <<"urls", i>>, <<"contentsOptions", i>> >>
        /\ IF ~parsed.success
           THEN /\ Catch(ZodError(parsed.issues))
                /\ UNCHANGED requests
           ELSE IF Len(urls) = 0
           THEN /\ Catch(NodeOperationError("At least one URL is required"))
                /\ UNCHANGED requests
           ELSE /\ requests' = Append(requests,
                                      HttpRequest(i, "POST", "https://ydc-index.io/v1/contents",
                                                  << >>, ContentsBody(urls, parsed.data)))
                /\ pc' = "http"
                /\ UNCHANGED <<returnData, i, thrown>>
  /\ UNCHANGED <<items, continueOnFail>>

\* the loop does not move on from an item whose operation is unknown
OperationOtherWaits ==
  /\ pc = "loop"
  /\ i < Len(items)
  /\ GetNodeParameter("operation", i) \notin {"search", "contents"}
  /\ UNCHANGED <<items, continueOnFail, i, pc, returnData, requests, paramReads, thrown>>

\* loop body when operation is neither 'search' nor 'contents': no branch is
\* taken, nothing is thrown, the loop goes on
OperationOther ==
  /\ pc = "loop"
  /\ i < Len(items)
  /\ GetNodeParameter("operation", i) \notin {"search", "contents"}
  /\ paramReads' = Append(paramReads, <<"operation", i>>)
  /\ i' = i + 1
  /\ UNCHANGED <<items, continueOnFail, pc, returnData, requests, thrown>>

WebResult(url) ==
  Obj(("url" :> Str(url)) @@ ("title" :> Str("T")) @@ ("description" :> Str("D"))
      @@ ("favicon" :> Str("f.ico")))

NewsResult(url) ==
  Obj(("url" :> Str(url)) @@ ("title" :> Str("T")) @@ ("description" :> Str("D"))
      @@ ("source" :> Str("wire")))

\* payloads the search endpoint can answer with: a full response with fields
\* the schema does not declare, one without results and one whose web
\* result lacks title and description
SearchPayloads ==
  { Obj(("results" :> Obj(("web" :> Arr(<< WebResult("https://a.com") >>))
                          @@ ("news" :> Arr(<< NewsResult("https://b.com") >>))
                          @@ ("hits" :> Num(1))))
        @@ ("metadata" :> Obj(("query" :> Str("q")) @@ ("shard" :> Str("s"))))
        @@ ("took" :> Num(3))),
    Obj("metadata" :> Obj("query" :> Str("q"))),
    Obj("results" :> Obj("web" :> Arr(<< Obj("url" :> Str("https://a.com")) >>))) }

\* payloads the contents endpoint can answer with: no element, two elements,
\* an element whose url is not a URL, and an object
ContentsPayloads ==
  { Arr(<< >>),
    Arr(<< Obj(("url" :> Str("https://a.com")) @@ ("markdown" :> Str("# A")) @@ ("lang" :> Str("en"))),
           Obj(("url" :> Str("https://b.com")) @@ ("html" :> Str("<p>B</p>"))) >>),
    Arr(<< Obj("url" :> Str("not a url")) >>),
    Obj("metadata" :> Obj("query" :> Str("q"))) }

\* payloads the awaited HTTP call of item i can resolve with
UpstreamResponses ==
  IF GetNodeParameter("operation", i) = "search" THEN SearchPayloads ELSE ContentsPayloads

\* the response schema of the request awaited
ResponseSchema == IF GetNodeParameter("operation", i) = "search"
                  THEN SearchResponseSchema
                  ELSE ContentsResponseSchema

\* the records are emitted from the raw response, no response validation
HttpResolveUnvalidated ==
  /\ pc = "http"
  /\ \E rawResponse \in UpstreamResponses :
       /\ requests' = [requests EXCEPT ![Len(requests)].status = "resolved",
                                       ![Len(requests)].response = rawResponse]
       /\ returnData' = returnData \o ConstructExecutionMetaData(ReturnJsonArray(rawResponse), i)
       /\ i' = i + 1
       /\ pc' = "loop"
       /\ UNCHANGED thrown
  /\ UNCHANGED <<items, continueOnFail, paramReads>>

\* the awaited HTTP call resolves with some rawResponse: parse it, emit the records
HttpResolve ==
  /\ pc = "http"
  /\ \E rawResponse \in UpstreamResponses :
       /\ requests' = [requests EXCEPT ![Len(requests)].status = "resolved",
                                       ![Len(requests)].response = rawResponse]
       /\ \E parsed \in {SafeParse(ResponseSchema, rawResponse)} :
             IF ~parsed.success
             THEN Catch(ZodError(parsed.issues))
             ELSE /\ returnData' = returnData
                                     \o ConstructExecutionMetaData(ReturnJsonArray(parsed.data), i)
                  /\ i' = i + 1
                  /\ pc' = "loop"
                  /\ UNCHANGED thrown
  /\ UNCHANGED <<items, continueOnFail, paramReads>>

\* a rejected call is issued a second time before the error is reported
HttpRejectRetryOnce ==
  /\ pc = "http"
  /\ IF Len(SelectSeq(requests, LAMBDA r : r.item = i)) = 1
     THEN /\ requests' = Append([requests EXCEPT ![Len(requests)].status = "rejected"],
                                [requests[Len(requests)] EXCEPT !.status = "pending"])
          /\ UNCHANGED <<returnData, i, pc, thrown>>
     ELSE /\ requests' = [requests EXCEPT ![Len(requests)].status = "rejected"]
          /\ Catch(TransportError)
  /\ UNCHANGED <<items, continueOnFail, paramReads>>

\* the awaited HTTP call rejects (network error or non-success status)
HttpReject ==
  /\ pc = "http"
  /\ requests' = [requests EXCEPT ![Len(requests)].status = "rejected"]
  /\ Catch(TransportError)
  /\ UNCHANGED <<items, continueOnFail, paramReads>>

\* the loop condition fails: return [returnData]
Return ==
  /\ pc = "loop"
  /\ i = Len(items)
  /\ pc' = "returned"
  /\ UNCHANGED <<items, continueOnFail, i, returnData, requests, paramReads, thrown>>

(***************************************************************************)
(* Inputs: items the host can hand to execute() and payloads the upstream  *)
(* API can answer with                                                     *)
(***************************************************************************)
\* longest batch of catalogue items
MaxItems == 3

\* most option fields set in one options collection drawn from the field values
MaxFields == 1

\* longest text of the URLs parameter of a single-item batch
MaxUrlsLen == 5

\* an item with the parameters of a search; the other parameters keep the
\* defaults of the property catalogue
SearchItem(query, searchOptions) ==
  [operation |-> "search", query |-> Str(query), searchOptions |-> searchOptions,
   urls |-> Text(<< >>), contentsOptions |-> EmptyObj]

ContentsItem(urls, contentsOptions) ==
  [operation |-> "contents", query |-> Str(""), searchOptions |-> EmptyObj,
   urls |-> Text(urls), contentsOptions |-> contentsOptions]

OtherItem(operation) ==
  [operation |-> operation, query |-> Str(""), searchOptions |-> EmptyObj,
   urls |-> Text(<< >>), contentsOptions |-> EmptyObj]

\* items of the batches: a success and the failure kinds of each operation
CatalogueItems ==
  { SearchItem("a OR b", Obj(("count" :> Num(10)) @@ ("offset" :> Num(0)) @@ ("country" :> Str("")))),
    SearchItem("q", Obj(("count" :> Num(0)) @@ ("freshness" :> Str("century")))),
    ContentsItem(<< "a", ",", " ", "a", "a" >>, EmptyObj),
    ContentsItem(<< ",", " " >>, Obj("crawl_timeout" :> Num(30))),
    OtherItem("summarize") }

SearchFieldNames ==
  {"count", "country", "freshness", "language", "livecrawl", "livecrawl_formats",
   "offset", "safesearch", "extra"}

\* values a field of the raw search options collection can hold
SearchFieldValues == [k \in SearchFieldNames |->
  CASE k = "count" -> {Num(n) : n \in {-1, 0, 1, 2, 50, 99, 100, 101}} \cup {NumAndHalf(1), Str("5")}
    [] k = "country" -> {Str(""), Str("US"), Num(1)}
    [] k = "freshness" -> {Str(""), Str("day"), Str("year"), Str("Day"), Str("century")}
    [] k = "language" -> {Str(""), Str("EN")}
    [] k = "livecrawl" -> {Str(""), Str("web"), Str("all")}
    [] k = "livecrawl_formats" -> {Str("html"), Str("markdown"), Str("pdf")}
    [] k = "offset" -> {Num(n) : n \in -1..11} \cup {NumAndHalf(0), Str("0")}
    [] k = "safesearch" -> {Str("off"), Str("strict"), Str("none")}
    [] k = "extra" -> {Str("x")}]

ContentsFieldNames == {"formats", "crawl_timeout", "extra"}

\* values a field of the raw contents options collection can hold
ContentsFieldValues == [k \in ContentsFieldNames |->
  CASE k = "formats" -> { Arr(<< >>), Arr(<< Str("markdown") >>),
                          Arr(<< Str("html"), Str("markdown") >>),
                          Arr(<< Str("markdown"), Str("html"), Str("metadata") >>),
                          Arr(<< Str("markdown"), Str("pdf") >>),
                          Str("markdown") }
    [] k = "crawl_timeout" -> {Num(n) : n \in {-1, 0, 1, 2, 30, 59, 60, 61}} \cup {NumAndHalf(30), Str("30")}
    [] k = "extra" -> {Str("x")}]

RECURSIVE Collections(_, _)
\* the collections that set exactly the fields in names, values[k] giving the
\* values of field k
Collections(names, values) ==
  IF names = {}
  THEN { << >> }
  ELSE LET k == CHOOSE k \in names : TRUE
       IN { Put(c, k, x) : c \in Collections(names \ {k}, values), x \in values[k] }

\* the raw options that set at most MaxFields of the fields in names
RawOptions(names, values) ==
  { Obj(c) : c \in UNION { Collections(present, values) :
                             present \in {ns \in SUBSET names : Cardinality(ns) <= MaxFields} } }

\* a search options collection with every field set
AllSearchOptions ==
  Obj(("count" :> Num(100)) @@ ("country" :> Str("US")) @@ ("freshness" :> Str("week"))
      @@ ("language" :> Str("EN")) @@ ("livecrawl" :> Str("news"))
      @@ ("livecrawl_formats" :> Str("markdown")) @@ ("offset" :> Num(9))
      @@ ("safesearch" :> Str("moderate")) @@ ("extra" :> Str("x")))

\* a contents options collection with every field set
AllContentsOptions ==
  Obj(("formats" :> Arr(<< Str("html"), Str("markdown") >>)) @@ ("crawl_timeout" :> Num(30))
      @@ ("extra" :> Str("x")))

UrlAlphabet == {"a", ",", " "}

RECURSIVE Texts(_)
\* the texts of at most n characters
Texts(n) ==
  IF n = 0
  THEN { << >> }
  ELSE LET shorter == Texts(n - 1)
       IN shorter \cup { Append(s, c) : s \in shorter, c \in UrlAlphabet }

\* items of the single-item batches: every query with every options collection
\* of few fields, every count and crawl_timeout around its whole range, every
\* URL text, every contents options collection of few fields
WideItems ==
  { SearchItem(q, o) : q \in {"", "a OR b"},
                       o \in RawOptions(SearchFieldNames, SearchFieldValues)
                             \cup {AllSearchOptions, Str("oops")} }
  \cup { SearchItem("q", Obj("count" :> Num(n))) : n \in -2..103 }
  \cup { ContentsItem(<< "a" >>, Obj("crawl_timeout" :> Num(n))) : n \in -2..63 }
  \cup { ContentsItem(u, EmptyObj) : u \in Texts(MaxUrlsLen) }
  \cup { ContentsItem(u, o) : u \in {<< >>, << "a" >>},
                              o \in RawOptions(ContentsFieldNames, ContentsFieldValues)
                                    \cup {AllContentsOptions} }

Batches ==
  UNION { [1..n -> CatalogueItems] : n \in 0..MaxItems } \cup { << it >> : it \in WideItems }

Init ==
  /\ items \in Batches
  /\ continueOnFail \in BOOLEAN
  /\ i = 0
  /\ pc = "loop"
  /\ returnData = << >>
  /\ requests = << >>
  /\ paramReads = << >>
  /\ thrown = << >>

Next ==
  \/ ExecuteSearch
  \/ ExecuteContents
  \/ OperationOther
  \/ HttpResolve
  \/ HttpReject
  \/ Return

Spec == Init /\ [][Next]_vars

\* the synchronous part of the loop: it runs on whenever it can
LoopStep == Return \/ OperationOther \/ ExecuteSearch \/ ExecuteContents

\* the settling of the awaited HTTP call
HttpSettles == HttpReject \/ HttpResolve

\* execute() with the loop running on and every awaited HTTP call
\* eventually resolving or rejecting
FairSpec == Spec /\ WF_vars(LoopStep) /\ WF_vars(HttpSettles)

(***************************************************************************)
(* Vocabulary of the properties                                            *)
(***************************************************************************)
Indices == 0..(Len(items) - 1)

\* the loop body of item k has run to its end (normally or into the throw)
Finished(k) == k < i \/ (pc = "thrown" /\ k = i)

OperationOf(k) == items[k + 1].operation

RawOptionsOf(k) ==
  IF OperationOf(k) = "search" THEN items[k + 1].searchOptions ELSE items[k + 1].contentsOptions

OptionsSchemaOf(k) ==
  IF OperationOf(k) = "search" THEN SearchOptionsSchema ELSE ContentsOptionsSchema

ResponseSchemaOf(k) ==
  IF OperationOf(k) = "search" THEN SearchResponseSchema ELSE ContentsResponseSchema

KnownOperation(k) == OperationOf(k) \in {"search", "contents"}

\* the records of the output list correlated to item k, in output order
RecordsOf(k) == SelectSeq(returnData, LAMBDA r : r.pairedItem.item = k)

\* the HTTP requests issued for item k, in issue order
RequestsOf(k) == SelectSeq(requests, LAMBDA r : r.item = k)

\* every character of the URL text is a comma or white space
OnlyCommasAndSpace(k) == \A n \in DOMAIN items[k + 1].urls.v : items[k + 1].urls.v[n] \in {","} \cup WhiteSpace

OptionsInvalid(k) == KnownOperation(k) /\ ~SafeParse(OptionsSchemaOf(k), RawOptionsOf(k)).success

NoUrlLeft(k) == OperationOf(k) = "contents" /\ OnlyCommasAndSpace(k) /\ ~OptionsInvalid(k)

TransportFailed(k) == \E n \in DOMAIN requests : requests[n].item = k /\ requests[n].status = "rejected"

ResponseInvalid(k) ==
  \E n \in DOMAIN requests :
    /\ requests[n].item = k
    /\ requests[n].status = "resolved"
    /\ ~SafeParse(ResponseSchemaOf(k), requests[n].response).success

\* item k fails in one of the four ways of the error taxonomy
Fails(k) == OptionsInvalid(k) \/ NoUrlLeft(k) \/ TransportFailed(k) \/ ResponseInvalid(k)

IsErrorRecord(r) == "error" \in DOMAIN r.json.v /\ r.json.v["error"].t = "text"

\* the result records of item k for the payload its request resolved with
ResultRecords(k) ==
  LET response == RequestsOf(k)[1].response
      entries == IF OperationOf(k) = "search" THEN << response >> ELSE response.v
  IN [n \in DOMAIN entries |-> [json |-> entries[n], pairedItem |-> [item |-> k]]]

(***************************************************************************)
(* C1  With the continuation flag set execute() never aborts: every        *)
(* failing item that has been processed has exactly one record, an error   *)
(* record paired to its index; every processed search or contents item     *)
(* that does not fail has exactly its result records; and execute()        *)
(* returns only after the last item.                                       *)
(***************************************************************************)
C1_ContinueOnFailIsolates ==
  continueOnFail =>
    /\ pc # "thrown"
    /\ thrown = << >>
    /\ pc = "returned" => i = Len(items)
    /\ \A k \in Indices :
         Finished(k) =>
           LET fails == Fails(k)
           IN /\ fails => Len(RecordsOf(k)) = 1 /\ IsErrorRecord(RecordsOf(k)[1])
              /\ (KnownOperation(k) /\ ~fails) => RecordsOf(k) = ResultRecords(k)

\* a returned batch of three whose middle item failed options validation
\* while its neighbours produced their results
C1_Witness ==
  /\ continueOnFail
  /\ pc = "returned"
  /\ Len(items) = 3
  /\ OptionsInvalid(1)
  /\ IsErrorRecord(RecordsOf(1)[1])
  /\ ~Fails(0) /\ KnownOperation(0) /\ RecordsOf(0) # << >>
  /\ ~Fails(2) /\ KnownOperation(2) /\ RecordsOf(2) # << >>

(***************************************************************************)
(* C2  With the continuation flag not set the first failing item aborts    *)
(* the batch: no processed item before the loop position has failed, a     *)
(* return means no item failed, and when execute() has thrown the one      *)
(* error carries the index k of the failing item, every item before k had  *)
(* its operation read and its results emitted, and no parameter read, HTTP *)
(* request or output record exists for an index above k.                   *)
(***************************************************************************)
C2_FirstFailureAborts ==
  ~continueOnFail =>
    /\ \A k \in Indices : k < i => ~Fails(k)
    /\ Len(thrown) <= 1
    /\ (thrown # << >>) <=> (pc = "thrown")
    /\ pc = "thrown" =>
         /\ thrown[1].itemIndex = i
         /\ Fails(i)
         /\ \A k \in Indices :
              k < i => /\ \E n \in DOMAIN paramReads : paramReads[n] = <<"operation", k>>
                       /\ KnownOperation(k) => RecordsOf(k) = ResultRecords(k)
         /\ \A n \in DOMAIN paramReads : paramReads[n][2] <= i
         /\ \A n \in DOMAIN requests : requests[n].item <= i
         /\ \A n \in DOMAIN returnData : returnData[n].pairedItem.item < i

\* the batch of three aborted at its middle item, the third never touched
C2_Witness ==
  /\ ~continueOnFail
  /\ pc = "thrown"
  /\ Len(items) = 3
  /\ thrown[1].itemIndex = 1
  /\ RecordsOf(0) # << >>
  /\ KnownOperation(2)

(***************************************************************************)
(* C3  With the continuation flag set, once execute() has returned every   *)
(* input index has at least one output record correlated to it.            *)
(***************************************************************************)
C3_EveryIndexHasRecord ==
  (continueOnFail /\ pc = "returned") => \A k \in Indices : RecordsOf(k) # << >>

(***************************************************************************)
(* C4  An item whose operation is neither 'search' nor 'contents' is a     *)
(* failure of that item: once its operation has been read and the loop has *)
(* left it, either the flag is set and the output holds an error record    *)
(* for its index, or execute() has thrown with its index.                  *)
(***************************************************************************)
C4_UnknownOperationFails ==
  \A k \in Indices :
    (~KnownOperation(k) /\ \E n \in DOMAIN paramReads : paramReads[n] = <<"operation", k>>) =>
      \/ /\ continueOnFail
         /\ Len(RecordsOf(k)) = 1
         /\ IsErrorRecord(RecordsOf(k)[1])
      \/ /\ ~continueOnFail
         /\ pc = "thrown"
         /\ thrown[1].itemIndex = k

(***************************************************************************)
(* Vocabulary of the request properties                                    *)
(***************************************************************************)
SearchOptionNames ==
  {"count", "country", "freshness", "language", "livecrawl", "livecrawl_formats",
   "offset", "safesearch"}

SearchRequests == {n \in DOMAIN requests : OperationOf(requests[n].item) = "search"}

ContentsRequests == {n \in DOMAIN requests : OperationOf(requests[n].item) = "contents"}

\* the option fields the caller set on the item of request n
PresentOptions(n) == DOMAIN RawOptionsOf(requests[n].item).v

OptionValue(n, k) == RawOptionsOf(requests[n].item).v[k]

EmptyCode(n, k) == k \in {"country", "language"} /\ OptionValue(n, k) = Str("")

(***************************************************************************)
(* C5 as stated  Every optional field present in an accepted SearchOptions *)
(* record is in the query parameters of the search request under its key   *)
(* with its value unchanged, a present empty-string country or language    *)
(* included.                                                               *)
(***************************************************************************)
C5_EveryPresentFieldSent ==
  \A n \in SearchRequests :
    \A k \in PresentOptions(n) \cap SearchOptionNames :
      k \in DOMAIN requests[n].qs /\ requests[n].qs[k] = OptionValue(n, k)

(***************************************************************************)
(* C5 amended  Every optional field present in an accepted SearchOptions   *)
(* record is in the query parameters under its key with its value          *)
(* unchanged (offset = 0 included), except a country or language that is   *)
(* the empty string, which is left out of the request.                     *)
(***************************************************************************)
C5_PresentFieldSentUnlessEmptyCode ==
  \A n \in SearchRequests :
    \A k \in PresentOptions(n) \cap SearchOptionNames :
      IF EmptyCode(n, k)
      THEN k \notin DOMAIN requests[n].qs
      ELSE k \in DOMAIN requests[n].qs /\ requests[n].qs[k] = OptionValue(n, k)

\* a search request that carries offset = 0
C5_Witness ==
  \E n \in SearchRequests :
    /\ "offset" \in PresentOptions(n)
    /\ OptionValue(n, "offset") = Num(0)
    /\ "offset" \in DOMAIN requests[n].qs
    /\ requests[n].qs["offset"] = Num(0)

(***************************************************************************)
(* C6  The query parameters of every search request hold the item's query  *)
(* string unchanged under 'query', hold no key of an optional field the    *)
(* options record does not set, and hold no key besides 'query' and the    *)
(* eight option names.                                                     *)
(***************************************************************************)
C6_QueryKeptNothingAdded ==
  \A n \in SearchRequests :
    /\ "query" \in DOMAIN requests[n].qs
    /\ requests[n].qs["query"] = items[requests[n].item + 1].query
    /\ DOMAIN requests[n].qs \subseteq {"query"} \cup SearchOptionNames
    /\ \A k \in SearchOptionNames : k \notin PresentOptions(n) => k \notin DOMAIN requests[n].qs

\* a search request for the query "a OR b" and options that set nothing but
\* an unknown key
C6_Witness ==
  \E n \in SearchRequests :
    /\ PresentOptions(n) = {"extra"}
    /\ DOMAIN requests[n].qs = {"query"}
    /\ requests[n].qs["query"] = Str("a OR b")

(***************************************************************************)
(* C7  A contents item with valid options whose URL text holds nothing but *)
(* commas and white space fails with 'At least one URL is required': no    *)
(* HTTP request is issued for it, and the failure is reported as the plain *)
(* message, without a violation list, in the error record (flag set) or in *)
(* the raised error (flag not set).                                        *)
(***************************************************************************)
C7_NoUrlIsOperationError ==
  \A k \in Indices :
    (Finished(k) /\ NoUrlLeft(k)) =>
      /\ RequestsOf(k) = << >>
      /\ IF continueOnFail
         THEN RecordsOf(k) =
                << [json |-> Obj("error" :> Text(<< "At least one URL is required" >>)),
                    pairedItem |-> [item |-> k]] >>
         ELSE /\ pc = "thrown"
              /\ thrown = << [errorResponse |->
                                Obj("message" :> Text(<< "At least one URL is required" >>)),
                              itemIndex |-> k] >>

\* the URL text "," was processed with the flag set
C7_Witness ==
  /\ continueOnFail
  /\ Len(items) = 1
  /\ items[1].operation = "contents"
  /\ items[1].urls = Text(<< "," >>)
  /\ Finished(0)
  /\ Len(RecordsOf(0)) = 1

\* the positions just outside the text and of its commas
Cuts(s) == {0, Len(s) + 1} \cup {n \in DOMAIN s : s[n] = ","}

\* the span of non-white-space following the cut c, << >> when there is none
PieceCore(s, c) ==
  LET next == CHOOSE d \in Cuts(s) : d > c /\ \A e \in Cuts(s) : e > c => d <= e
      solid == {n \in (c + 1)..(next - 1) : s[n] \notin WhiteSpace}
  IN IF solid = {}
     THEN << >>
     ELSE SubSeq(s, CHOOSE n \in solid : \A m \in solid : n <= m,
                    CHOOSE n \in solid : \A m \in solid : n >= m)

ExpectedUrls(s) ==
  LET starts == {c \in Cuts(s) : c <= Len(s) /\ PieceCore(s, c) # << >>}
      nth(n) == CHOOSE c \in starts : Cardinality({d \in starts : d < c}) = n - 1
  IN [n \in 1..Cardinality(starts) |-> Text(PieceCore(s, nth(n)))]

(***************************************************************************)
(* C8  The URL list in the body of a contents request is the list of the   *)
(* comma-separated pieces of the URL text, each cut down to the span       *)
(* between its first and last non-white-space character, pieces without    *)
(* such a character left out, in the order of the text and with repeated   *)
(* pieces kept.                                                            *)
(***************************************************************************)
C8_UrlListIsCleanedSplit ==
  \A n \in ContentsRequests :
    /\ "urls" \in DOMAIN requests[n].body
    /\ requests[n].body["urls"] = Arr(ExpectedUrls(items[requests[n].item + 1].urls.v))

\* the text "a,, a" went out as the two URLs a and a
C8_Witness ==
  \E n \in ContentsRequests :
    /\ items[requests[n].item + 1].urls.v = << "a", ",", ",", " ", "a" >>
    /\ requests[n].body["urls"] = Arr(<< Text(<< "a" >>), Text(<< "a" >>) >>)

(***************************************************************************)
(* C9  The body of a contents request holds 'urls'; holds 'formats' exactly*)
(* when the caller supplied a non-empty formats list, then that list in    *)
(* the same order; holds 'crawl_timeout' exactly when the caller supplied  *)
(* it, then with that value; and holds no other key.                       *)
(***************************************************************************)
C9_ContentsBodyKeys ==
  \A n \in ContentsRequests :
    LET body == requests[n].body
        formatsGiven == "formats" \in PresentOptions(n) /\ OptionValue(n, "formats").v # << >>
        timeoutGiven == "crawl_timeout" \in PresentOptions(n)
    IN /\ "urls" \in DOMAIN body
       /\ DOMAIN body \subseteq {"urls", "formats", "crawl_timeout"}
       /\ "formats" \in DOMAIN body <=> formatsGiven
       /\ formatsGiven => body["formats"] = OptionValue(n, "formats")
       /\ "crawl_timeout" \in DOMAIN body <=> timeoutGiven
       /\ timeoutGiven => body["crawl_timeout"] = OptionValue(n, "crawl_timeout")

\* a contents request for options that set both fields and an unknown key
C9_Witness ==
  \E n \in ContentsRequests :
    /\ PresentOptions(n) = {"formats", "crawl_timeout", "extra"}
    /\ DOMAIN requests[n].body = {"urls", "formats", "crawl_timeout"}
    /\ requests[n].body["formats"] = Arr(<< Str("html"), Str("markdown") >>)
    /\ requests[n].body["crawl_timeout"] = Num(30)

\* the violation list reported for item k: in its error record or in the raised error
ReportedIssues(k) ==
  IF continueOnFail
  THEN IF RecordsOf(k) # << >> /\ "validationErrors" \in DOMAIN RecordsOf(k)[1].json.v
       THEN RecordsOf(k)[1].json.v["validationErrors"].v
       ELSE << >>
  ELSE IF pc = "thrown" /\ i = k /\ "issues" \in DOMAIN thrown[1].errorResponse.v
       THEN thrown[1].errorResponse.v["issues"].v
       ELSE << >>

Rejected(k, field) ==
  \E j \in DOMAIN ReportedIssues(k) : ReportedIssues(k)[j].v["path"] = Text(<< field >>)

IntegerWithin(x, typeOptions) ==
  /\ x.t = "number"
  /\ \E n \in typeOptions.minValue..typeOptions.maxValue : x = Num(n)

NumericFields(k) == IF OperationOf(k) = "search" THEN {"count", "offset"} ELSE {"crawl_timeout"}

(***************************************************************************)
(* C10  A present count, offset or crawl_timeout is rejected by the options*)
(* validator (a violation at its path is reported for the item) exactly    *)
(* when it is not an integer within the inclusive minValue..maxValue range *)
(* that the parameter catalogue declares for it: 1..100, 0..9 and 1..60.   *)
(***************************************************************************)
C10_RangesInclusiveAsCatalogue ==
  /\ TypeOptions["count"] = [minValue |-> 1, maxValue |-> 100]
  /\ TypeOptions["offset"] = [minValue |-> 0, maxValue |-> 9]
  /\ TypeOptions["crawl_timeout"] = [minValue |-> 1, maxValue |-> 60]
  /\ \A k \in Indices :
       (KnownOperation(k) /\ RawOptionsOf(k).t = "object" /\ (Finished(k) \/ RequestsOf(k) # << >>)) =>
         \A field \in NumericFields(k) \cap DOMAIN RawOptionsOf(k).v :
           Rejected(k, field) <=> ~IntegerWithin(RawOptionsOf(k).v[field], TypeOptions[field])

\* count = 100 was accepted and sent, the upper bound being inclusive
C10_Witness ==
  \E n \in SearchRequests :
    /\ "count" \in PresentOptions(n)
    /\ OptionValue(n, "count") = Num(100)
    /\ requests[n].qs["count"] = Num(100)

(***************************************************************************)
(* Vocabulary of the validator properties                                  *)
(***************************************************************************)
\* the value sets the option schemas declare for their enum fields
DeclaredEnums ==
  [k \in {"freshness", "livecrawl", "livecrawl_formats", "safesearch", "formats"} |->
     CASE k = "freshness" -> {"day", "week", "month", "year"}
       [] k = "livecrawl" -> {"web", "news", "all"}
       [] k = "livecrawl_formats" -> {"html", "markdown"}
       [] k = "safesearch" -> {"off", "moderate", "strict"}
       [] k = "formats" -> {"markdown", "html", "metadata"}]

DeclaredFields(k) ==
  IF OperationOf(k) = "search" THEN SearchOptionNames ELSE {"formats", "crawl_timeout"}

\* x is a value of the declared type, range or enum set of the option field
DeclaredValid(field, x) ==
  CASE field \in {"count", "offset", "crawl_timeout"} -> IntegerWithin(x, TypeOptions[field])
    [] field \in {"country", "language"} -> x.t = "string"
    [] field = "formats" ->
         x.t = "array" /\ \A n \in DOMAIN x.v : x.v[n].t = "string" /\ x.v[n].v \in DeclaredEnums[field]
    [] OTHER -> x.t = "string" /\ x.v \in DeclaredEnums[field]

\* the option fields item k sets to a value outside what is declared
InvalidFields(k) ==
  {f \in DeclaredFields(k) \cap DOMAIN RawOptionsOf(k).v : ~DeclaredValid(f, RawOptionsOf(k).v[f])}

\* a violation is reported for item k at the field or below it
RejectedUnder(k, field) ==
  \E j \in DOMAIN ReportedIssues(k) :
    /\ ReportedIssues(k)[j].v["path"].v # << >>
    /\ ReportedIssues(k)[j].v["path"].v[1] = field

(***************************************************************************)
(* C11  An options record with at least one field outside its declared     *)
(* range or enum set fails in the one validator call made for the item: no *)
(* request is issued, the reported violation list is not empty and holds a *)
(* violation for every invalid field, not only for the first.              *)
(***************************************************************************)
C11_EveryInvalidFieldReported ==
  \A k \in Indices :
    (Finished(k) /\ KnownOperation(k) /\ RawOptionsOf(k).t = "object" /\ InvalidFields(k) # {}) =>
      /\ RequestsOf(k) = << >>
      /\ ReportedIssues(k) # << >>
      /\ \A f \in InvalidFields(k) : RejectedUnder(k, f)

\* count = 0 together with freshness = "century" was reported as two violations
C11_Witness ==
  \E k \in Indices :
    /\ Finished(k)
    /\ OperationOf(k) = "search"
    /\ RawOptionsOf(k) = Obj(("count" :> Num(0)) @@ ("freshness" :> Str("century")))
    /\ Len(ReportedIssues(k)) = 2
    /\ Rejected(k, "count")
    /\ Rejected(k, "freshness")

\* the request of item k was answered and the answer satisfies the response schema
ResponseAccepted(k) ==
  /\ RequestsOf(k) # << >>
  /\ RequestsOf(k)[1].status = "resolved"
  /\ SafeParse(ResponseSchemaOf(k), RequestsOf(k)[1].response).success

\* the payloads the upstream answer of item k consists of, one per output record
UpstreamElements(k) ==
  LET rawResponse == RequestsOf(k)[1].response
  IN IF rawResponse.t = "array" THEN rawResponse.v ELSE << rawResponse >>

(***************************************************************************)
(* C12  When the upstream response satisfies the response schema, the      *)
(* records emitted for the item carry the response as it was received:     *)
(* every field, declared or not, at every level, with its name and value   *)
(* unchanged (search: one record with the whole response, contents: one    *)
(* record per list element).                                               *)
(***************************************************************************)
C12_AcceptedResponseUnchanged ==
  \A k \in Indices :
    (Finished(k) /\ ResponseAccepted(k)) =>
      /\ Len(RecordsOf(k)) = Len(UpstreamElements(k))
      /\ \A n \in DOMAIN UpstreamElements(k) : RecordsOf(k)[n].json = UpstreamElements(k)[n]

\* a search record and a contents record were emitted with the undeclared
\* fields of every open level
C12_Witness ==
  \E k1, k2 \in Indices :
    /\ Finished(k1) /\ Finished(k2)
    /\ OperationOf(k1) = "search" /\ ResponseAccepted(k1)
    /\ OperationOf(k2) = "contents" /\ ResponseAccepted(k2)
    /\ Len(RecordsOf(k1)) = 1
    /\ LET json == RecordsOf(k1)[1].json.v
       IN /\ {"took", "results", "metadata"} \subseteq DOMAIN json
          /\ json["took"] = Num(3)
          /\ json["results"].v["hits"] = Num(1)
          /\ json["results"].v["web"].v[1].v["favicon"] = Str("f.ico")
          /\ json["results"].v["news"].v[1].v["source"] = Str("wire")
          /\ json["metadata"].v["shard"] = Str("s")
    /\ Len(RecordsOf(k2)) = 2
    /\ "lang" \in DOMAIN RecordsOf(k2)[1].json.v
    /\ RecordsOf(k2)[1].json.v["lang"] = Str("en")

\* the failure of item k as reported: the payload of its error record
\* (continuation set) or the error response of the raised error
ReportedFailure(k) ==
  IF continueOnFail THEN RecordsOf(k)[1].json.v ELSE thrown[1].errorResponse.v

FailureReported(k) ==
  IF continueOnFail
  THEN RecordsOf(k) # << >> /\ IsErrorRecord(RecordsOf(k)[1])
  ELSE pc = "thrown" /\ i = k

\* the key the violation list is reported under
ViolationListKey == IF continueOnFail THEN "validationErrors" ELSE "issues"

MessageKey == IF continueOnFail THEN "error" ELSE "message"

\* how item k fares: which of the four failures it runs into, if any, and
\* the violations the validator found for it, in validator order
Outcome(k) ==
  LET options == SafeParse(OptionsSchemaOf(k), RawOptionsOf(k))
      call == RequestsOf(k)
      response == SafeParse(ResponseSchemaOf(k), call[1].response)
      optionsInvalid == KnownOperation(k) /\ ~options.success
      noUrlLeft == OperationOf(k) = "contents" /\ OnlyCommasAndSpace(k) /\ ~optionsInvalid
      transportFailed == call # << >> /\ call[1].status = "rejected"
      responseInvalid == call # << >> /\ call[1].status = "resolved" /\ ~response.success
  IN [optionsInvalid |-> optionsInvalid,
      noUrlLeft |-> noUrlLeft,
      transportFailed |-> transportFailed,
      responseInvalid |-> responseInvalid,
      violations |-> IF optionsInvalid THEN options.issues
                     ELSE IF responseInvalid THEN response.issues
                     ELSE << >>]

\* the violations the validator found for item k, in validator order
ViolationsOf(k) == Outcome(k).violations

(***************************************************************************)
(* C13  The reported failure of an item carries the violation list exactly *)
(* when the item failed options validation or response validation; the     *)
(* list then has one entry per violation, in validator order, each with    *)
(* the dot-joined path, the message and the kind token.  An operation-     *)
(* input failure or a transport failure carries a message and nothing      *)
(* else.  Both for the error record and for the raised error.              *)
(***************************************************************************)
C13_ViolationListIffValidationFailure ==
  \A k \in Indices :
    LET outcome == Outcome(k)
        failure == ReportedFailure(k)
        validation == outcome.optionsInvalid \/ outcome.responseInvalid
        violations == outcome.violations
    IN (Finished(k) /\ (validation \/ outcome.noUrlLeft \/ outcome.transportFailed)) =>
         /\ FailureReported(k)
         /\ MessageKey \in DOMAIN failure
         /\ (ViolationListKey \in DOMAIN failure) <=> validation
         /\ IF validation
            THEN LET list == failure[ViolationListKey]
                 IN /\ DOMAIN failure = {MessageKey, ViolationListKey}
                    /\ list.t = "array"
                    /\ Len(list.v) = Len(violations)
                    /\ Len(violations) >= 1
                    /\ \A j \in DOMAIN list.v :
                         /\ DOMAIN list.v[j].v = {"path", "message", "code"}
                         /\ list.v[j].v["path"] = Text(Join(violations[j].path, "."))
                         /\ list.v[j].v["message"] = Str(violations[j].message)
                         /\ list.v[j].v["code"] = Str(violations[j].code)
            ELSE DOMAIN failure = {MessageKey}

\* with continuation set, an item failed response validation and its record
\* carries the list while a transport failure of another item carries none
C13_Witness ==
  /\ continueOnFail
  /\ \E k1, k2 \in Indices :
       /\ Finished(k1) /\ Finished(k2)
       /\ ResponseInvalid(k1)
       /\ "validationErrors" \in DOMAIN RecordsOf(k1)[1].json.v
       /\ Len(RecordsOf(k1)[1].json.v["validationErrors"].v) >= 2
       /\ TransportFailed(k2)
       /\ DOMAIN RecordsOf(k2)[1].json.v = {"error"}

\* the lines of the message reported for item k
MessageLines(k) == Split(ReportedFailure(k)[MessageKey].v, "\n")

(***************************************************************************)
(* C14  The message of a validation failure with n >= 1 violations is the  *)
(* header 'Validation error:' followed by exactly n lines; line k, counted *)
(* from 1, is numbered k and names the dot-joined path of the k-th         *)
(* violation, or 'root' when the path is empty, and then its message.      *)
(***************************************************************************)
C14_MessageListsViolationsInOrder ==
  \A k \in Indices :
    LET violations == ViolationsOf(k)
        lines == MessageLines(k)
    IN (Finished(k) /\ violations # << >>) =>
         /\ FailureReported(k)
         /\ Len(lines) = 1 + Len(violations)
         /\ lines[1] = << "Validation error:" >>
         /\ \A n \in DOMAIN violations :
              LET issue == violations[n]
                  named == IF issue.path = << >> THEN << "root" >> ELSE Join(issue.path, ".")
              IN lines[n + 1] = << "  ", ToString(n), ". " >> \o named \o << ": ", issue.message >>

\* one message with two numbered lines, one message that names 'root'
C14_Witness ==
  \E k1, k2 \in Indices :
    /\ Finished(k1) /\ Finished(k2)
    /\ OptionsInvalid(k1)
    /\ Len(MessageLines(k1)) = 3
    /\ SubSeq(MessageLines(k1)[2], 1, 4) = << "  ", "1", ". ", "count" >>
    /\ SubSeq(MessageLines(k1)[3], 1, 4) = << "  ", "2", ". ", "freshness" >>
    /\ ResponseInvalid(k2)
    /\ ViolationsOf(k2)[1].path = << >>
    /\ SubSeq(MessageLines(k2)[2], 1, 4) = << "  ", "1", ". ", "root" >>

\* the classification and the records of an item, computed from the item's
\* parameters, the HTTP call made for it (none, or one with its outcome) and
\* its index, and from nothing else
OwnResult(item, call, k) ==
  LET rawOptions == IF item.operation = "search" THEN item.searchOptions ELSE item.contentsOptions
      options == SafeParse(IF item.operation = "search" THEN SearchOptionsSchema ELSE ContentsOptionsSchema,
                           rawOptions)
      response == SafeParse(IF item.operation = "search" THEN SearchResponseSchema ELSE ContentsResponseSchema,
                            call[1].response)
      elements == IF call[1].response.t = "array" THEN call[1].response.v ELSE << call[1].response >>
      validation(issues) ==
        << [json |-> Obj(("error" :> ErrorMessage(issues))
                         @@ ("validationErrors" :> SerializedIssues(issues))),
            pairedItem |-> [item |-> k]] >>
      plain(message) ==
        << [json |-> Obj("error" :> Text(<< message >>)), pairedItem |-> [item |-> k]] >>
  IN CASE item.operation \notin {"search", "contents"} ->
            [classification |-> "no operation", records |-> << >>]
       [] ~options.success ->
            [classification |-> "options validation failure", records |-> validation(options.issues)]
       [] item.operation = "contents" /\ \A n \in DOMAIN item.urls.v : item.urls.v[n] \in {",", " ", "\t", "\n"} ->
            [classification |-> "operation input failure", records |-> plain("At least one URL is required")]
       [] call # << >> /\ call[1].status = "rejected" ->
            [classification |-> "transport failure", records |-> plain("Request failed")]
       [] ~response.success ->
            [classification |-> "response validation failure", records |-> validation(response.issues)]
       [] OTHER ->
            [classification |-> "success",
             records |-> [n \in DOMAIN elements |-> [json |-> elements[n], pairedItem |-> [item |-> k]]]]

OwnClassification(k) == OwnResult(items[k + 1], RequestsOf(k), k).classification

(***************************************************************************)
(* C15  With the continuation flag set, the records of a processed item    *)
(* are determined by the item's own parameters and its own upstream        *)
(* outcome: they equal a value computed from these alone, so two batches   *)
(* that agree on the item and its response give it identical records       *)
(* whatever the other items are and however they ended.                    *)
(***************************************************************************)
C15_RecordsDependOnOwnItemOnly ==
  \A k \in Indices :
    (continueOnFail /\ Finished(k)) =>
      LET own == OwnResult(items[k + 1], RequestsOf(k), k)
      IN /\ (RequestsOf(k) = << >>) <=>
              (own.classification \in {"no operation", "options validation failure", "operation input failure"})
         /\ RecordsOf(k) = own.records

\* a successful item stands between two failed ones of different kinds and
\* all three have their own records
C15_Witness ==
  /\ continueOnFail
  /\ Len(items) = 3
  /\ Finished(2)
  /\ OwnClassification(0) = "options validation failure"
  /\ OwnClassification(1) = "success"
  /\ OwnClassification(2) = "transport failure"
  /\ RecordsOf(1) # << >>
  /\ ~IsErrorRecord(RecordsOf(1)[1])
  /\ IsErrorRecord(RecordsOf(0)[1])
  /\ IsErrorRecord(RecordsOf(2)[1])

\* the output list is the concatenation of the record groups in index order
GroupsInIndexOrder ==
  /\ \A n \in DOMAIN returnData : returnData[n].pairedItem.item \in 0..(i - 1)
  /\ \A m, n \in DOMAIN returnData : m <= n => returnData[m].pairedItem.item <= returnData[n].pairedItem.item
  /\ returnData = Flatten([k \in 1..Len(items) |-> RecordsOf(k - 1)])

\* the records of a contents item follow the list the upstream answered with
ContentsRecordsInResponseOrder ==
  \A k \in Indices :
    (Finished(k) /\ OperationOf(k) = "contents" /\ ResponseAccepted(k)) =>
      /\ Len(RecordsOf(k)) = Len(RequestsOf(k)[1].response.v)
      /\ \A n \in DOMAIN RecordsOf(k) : RecordsOf(k)[n].json.v["url"] = RequestsOf(k)[1].response.v[n].v["url"]

\* a step only appends to the output list
EarlierRecordsKept ==
  /\ Len(returnData') >= Len(returnData)
  /\ SubSeq(returnData', 1, Len(returnData)) = returnData

(***************************************************************************)
(* C16  In every state of execute() the output list is the concatenation,  *)
(* in increasing item-index order, of the record groups of the items       *)
(* processed so far: every record carries the index of a processed item,   *)
(* the indices along the list never decrease, the records of a contents    *)
(* item are in the order of the upstream list, and no step changes or      *)
(* removes a record that is already in the list.                           *)
(***************************************************************************)
C16_OutputIsOrderedConcatenation ==
  /\ [](GroupsInIndexOrder /\ ContentsRecordsInResponseOrder)
  /\ [][EarlierRecordsKept]_vars

\* a contents item fanned out into two records after an earlier item's record
C16_Witness ==
  /\ Len(returnData) = 3
  /\ returnData[1].pairedItem.item = 0
  /\ returnData[2].pairedItem.item = 1
  /\ returnData[3].pairedItem.item = 1
  /\ OperationOf(1) = "contents"
  /\ returnData[2].json.v["url"] = Str("https://a.com")
  /\ returnData[3].json.v["url"] = Str("https://b.com")

\* the loop has entered the body of item k
Reached(k) == k < i \/ (k = i /\ pc \in {"http", "thrown"})

\* something other than a comma or white space is left in the URL text
SomeUrlLeft(k) == \E n \in DOMAIN items[k + 1].urls.v : items[k + 1].urls.v[n] \notin {",", " ", "\t", "\n"}

(***************************************************************************)
(* C17  At most one HTTP request is issued for an item, so a failed item   *)
(* is never retried; exactly one is issued if and only if the item is      *)
(* reached, its operation is search or contents, its options pass          *)
(* validation and, for contents, its cleaned URL list is not empty.  No    *)
(* request is issued for an item whose options fail validation.            *)
(***************************************************************************)
C17_OneRequestIffBuilt ==
  \A k \in Indices :
    /\ Len(RequestsOf(k)) <= 1
    /\ (Len(RequestsOf(k)) = 1) <=>
         /\ Reached(k)
         /\ OperationOf(k) \in {"search", "contents"}
         /\ SafeParse(OptionsSchemaOf(k), RawOptionsOf(k)).success
         /\ (OperationOf(k) = "contents" => SomeUrlLeft(k))

\* after a run with continuation set: one item whose single request was
\* rejected, one with invalid options and no request
C17_Witness ==
  /\ pc = "returned"
  /\ \E k1, k2 \in Indices :
       /\ TransportFailed(k1)
       /\ Len(RequestsOf(k1)) = 1
       /\ OptionsInvalid(k2)
       /\ RequestsOf(k2) = << >>
       /\ Len(requests) = 1

\* the records of item k that are results, not error records
ResultRecordsOf(k) == SelectSeq(RecordsOf(k), LAMBDA r : ~IsErrorRecord(r))

\* what a result record of item k stands on
ResultPreconditions(k) ==
  /\ SafeParse(OptionsSchemaOf(k), RawOptionsOf(k)).success
  /\ Len(RequestsOf(k)) = 1
  /\ RequestsOf(k)[1].status = "resolved"
  /\ SafeParse(ResponseSchemaOf(k), RequestsOf(k)[1].response).success

\* result records appear only in the step in which the pending call of the
\* item resolves
ResultOnlyOnResolve ==
  \A k \in Indices :
    (ResultRecordsOf(k)' # ResultRecordsOf(k)) =>
      /\ pc = "http" /\ i = k
      /\ RequestsOf(k)[1].status = "pending"
      /\ RequestsOf(k)'[1].status = "resolved"

ResultStandsOnValidatedResponse ==
  \A k \in Indices :
    /\ ResultRecordsOf(k) # << >> => ResultPreconditions(k)
    /\ (pc = "http" /\ k = i) => (RequestsOf(k)[1].status = "pending" /\ RecordsOf(k) = << >>)
    /\ (Finished(k) /\ TransportFailed(k)) =>
         /\ ResultRecordsOf(k) = << >>
         /\ RequestsOf(k)[1].response = Undefined
         /\ FailureReported(k)
         /\ ReportedFailure(k) = (MessageKey :> Text(<< "Request failed" >>))
    /\ (Finished(k) /\ ResponseInvalid(k)) =>
         /\ ResultRecordsOf(k) = << >>
         /\ FailureReported(k)
         /\ ViolationListKey \in DOMAIN ReportedFailure(k)
         /\ ReportedFailure(k)[ViolationListKey].v # << >>

(***************************************************************************)
(* C18  A result record is emitted for an item only after its options      *)
(* validated, its request was built, its HTTP call succeeded and its       *)
(* response validated, and only in the step that ends the call.  A failed  *)
(* HTTP call leaves no response to validate and makes the item a transport *)
(* failure; a response that fails validation gives no result record and    *)
(* makes the item a validation failure.                                    *)
(***************************************************************************)
C18_ResultAfterValidatedResponse ==
  /\ []ResultStandsOnValidatedResponse
  /\ [][ResultOnlyOnResolve]_vars

\* a search answer without a 'results' object gave a validation failure and
\* no result, next to an item that did get its result record
C18_Witness ==
  /\ continueOnFail
  /\ \E k1, k2 \in Indices :
       /\ Finished(k1) /\ Finished(k2)
       /\ OperationOf(k1) = "search"
       /\ ResponseInvalid(k1)
       /\ "results" \notin DOMAIN RequestsOf(k1)[1].response.v
       /\ ResultRecordsOf(k1) = << >>
       /\ Rejected(k1, "results")
       /\ ResultRecordsOf(k2) # << >>
       /\ ResultPreconditions(k2)

(***************************************************************************)
(* C19  A contents item whose options are invalid and whose URL text also  *)
(* cleans up to no URL is an options-validation failure: its reported      *)
(* failure carries the violation list of the options and its message is    *)
(* not 'At least one URL is required'.                                     *)
(***************************************************************************)
C19_OptionsValidatedBeforeUrls ==
  \A k \in Indices :
    (Finished(k) /\ OperationOf(k) = "contents" /\ OptionsInvalid(k) /\ ~SomeUrlLeft(k)) =>
      /\ FailureReported(k)
      /\ ViolationListKey \in DOMAIN ReportedFailure(k)
      /\ Len(ReportedFailure(k)[ViolationListKey].v) = Len(SafeParse(ContentsOptionsSchema, RawOptionsOf(k)).issues)
      /\ ReportedFailure(k)[MessageKey] # Text(<< "At least one URL is required" >>)
      /\ ReportedFailure(k)[MessageKey].v[1] = "Validation error:"

\* an empty URL text with a crawl_timeout out of range was reported as a
\* violation of crawl_timeout
C19_Witness ==
  \E k \in Indices :
    /\ Finished(k)
    /\ OperationOf(k) = "contents"
    /\ items[k + 1].urls.v = << >>
    /\ "crawl_timeout" \in DOMAIN RawOptionsOf(k).v
    /\ Rejected(k, "crawl_timeout")

\* the options of item k set the one field to a value, or for the multi-select
\* field to a list of values, that the catalogue offers for it
SetsOnlyCatalogueValue(k, field) ==
  /\ RawOptionsOf(k).t = "object"
  /\ DOMAIN RawOptionsOf(k).v = {field}
  /\ LET x == RawOptionsOf(k).v[field]
     IN IF field = "formats"
        THEN x.t = "array" /\ \A n \in DOMAIN x.v : x.v[n].t = "string" /\ x.v[n].v \in CatalogueOptions[field]
        ELSE x.t = "string" /\ x.v \in CatalogueOptions[field]

(***************************************************************************)
(* C20  Every value the parameter catalogue lets a user select for         *)
(* freshness, livecrawl, livecrawl_formats, safesearch, country, language  *)
(* and formats, the entries 'Any', 'Any Time' and 'None' included, is      *)
(* accepted by the options validator: an item whose options set only that  *)
(* field to such a value passes validation and no violation is reported.   *)
(***************************************************************************)
C20_EveryCatalogueValueAccepted ==
  \A k \in Indices :
    \A field \in DeclaredFields(k) \cap DOMAIN CatalogueOptions :
      (Finished(k) /\ KnownOperation(k) /\ SetsOnlyCatalogueValue(k, field)) =>
        /\ SafeParse(OptionsSchemaOf(k), RawOptionsOf(k)).success
        /\ ReportedIssues(k) = << >>

\* execute() has returned the output list or raised its error
Done == pc \in {"returned", "thrown"}

\* the item indices the loop has entered the body of, in order of entry
Visited ==
  LET reads == SelectSeq(paramReads, LAMBDA r : r[1] = "operation")
  IN [n \in DOMAIN reads |-> reads[n][2]]

\* one pass: the body was entered for the indices 0, 1, 2, ... of the batch,
\* each once, and no more HTTP calls were made than bodies entered
SinglePass ==
  /\ Len(Visited) <= Len(items)
  /\ \A n \in DOMAIN Visited : Visited[n] = n - 1
  /\ i <= Len(items)
  /\ Len(requests) <= Len(Visited)
  /\ \A m, n \in DOMAIN requests : m < n => requests[m].item < requests[n].item
  /\ pc = "thrown" => Len(thrown) = 1
  /\ pc = "returned" => (thrown = << >> /\ Len(Visited) = Len(items))

(***************************************************************************)
(* C21  When every awaited HTTP call eventually resolves or rejects,       *)
(* execute() on a batch of N items eventually finishes, by returning the   *)
(* output list or by raising one error, and on the way it enters the loop  *)
(* body for each index at most once, in increasing order: at most N        *)
(* iterations and at most N HTTP calls.                                    *)
(***************************************************************************)
C21_ExecuteTerminatesInOnePass ==
  /\ <>Done
  /\ []SinglePass

\* a batch of three was finished with three iterations and three HTTP calls
C21_Witness ==
  /\ pc = "returned"
  /\ Len(items) = 3
  /\ Visited = << 0, 1, 2 >>
  /\ Len(requests) = 3

====
